---- MODULE Spec2Model ----
(***************************************************************************)
(* TunTapInterface (src/src/network/tun_tap_interface.cpp): the lifecycle  *)
(* of a TUN/TAP interface object, its capture thread and its four traffic  *)
(* counters, as a state machine.                                           *)
(*                                                                         *)
(* Every access to a member that another thread may touch is one step:     *)
(* the caller threads run the member functions label by label, each        *)
(* capture thread runs captureThreadFunc label by label.  A capture thread *)
(* is bound to the object it was spawned on (the `this` given to           *)
(* std::thread in startCapture); the std::thread object itself is owned    *)
(* through capture_thread_ and travels with a move.                        *)
(***************************************************************************)
EXTENDS Integers, Sequences, FiniteSets, TLC

(* ---------------------------------------------------------------- bounds *)
MaxThreads == 2      \* capture threads ever spawned
MaxHandles == 2      \* device handles ever opened
MaxLen     == 2      \* longest packet the device delivers or a caller writes
MaxReads   == 2      \* reads that return data, over all capture threads
MaxWrites  == 1      \* device writes that are accepted, over all callers
SharedReads == 1     \* reads that return data while two callers share an interface

(* ------------------------------------------------------ program constants *)
buffer_size == 2048  \* captureThreadFunc's scratch buffer
InvalidFd   == -1    \* fd_ of an interface that holds no device
NULL        == 0     \* an empty capture_thread_

Objects == {"a", "b"}
Callers == {"main", "aux"}
Threads == 1..MaxThreads
Handles == 1..MaxHandles

\* A capture thread that runs a forwarding handler makes member calls of its
\* own: the call frame of thread t, beside the frames of the caller threads.
Frame(t) == ToString(t)
Frames == Callers \cup {Frame(t) : t \in Threads}

\* The packet of length n: its bytes differ by position and by length.
Packet(n) == [i \in 1..n |-> 10 * n + i]
Packets == {Packet(n) : n \in 1..MaxLen}

Min(x, y) == IF x <= y THEN x ELSE y

VARIABLES
    \* the interface objects
    ostate,             \* "unborn" | "alive" | "dead" (storage lifetime)
    name_, fd_, running_, capture_thread_,
    packets_received_, packets_sent_, bytes_received_, bytes_sent_,
    \* the kernel's device handles
    hstate,             \* "free" | "open" | "closed"
    \* the capture threads
    tpc,                \* position in captureThreadFunc
    tthis,              \* the object the thread function was bound to
    tnread,             \* nread of the current iteration
    tbuf,               \* the scratch buffer (the bytes written so far)
    tjoined,            \* the std::thread object has been joined
    rlog,               \* the bytes the device gave the read now being handled
    hlog,               \* the packet the handler was just called with
    \* the caller threads
    cpc, cop, cobj, csrc, cpkt, cret, cwritten,
    mpc,                \* main's position in its script (scripted usages)
    \* the process and bookkeeping
    aborted,            \* "no", or why the process was terminated
    moved,              \* the object took part in a move
    stopped,            \* stopCapture returned and no startCapture since
    badclose,           \* close() was called on a handle that is not open
    usage,              \* how the program uses the class (see Usages)
    handled,            \* handler invocations begun for the object
    delivered,          \* bytes in the buffers passed to the handler
    rdleft, wrleft      \* packets the link will still deliver / accept

objVars == <<ostate, name_, fd_, running_, capture_thread_,
             packets_received_, packets_sent_, bytes_received_, bytes_sent_>>
rxVars == <<packets_received_, bytes_received_>>
txVars == <<packets_sent_, bytes_sent_>>
thrVars == <<tpc, tthis, tnread, tbuf, tjoined, rlog, hlog>>
callVars == <<cpc, cop, cobj, csrc, cpkt, cret, cwritten, mpc>>
argVars == <<cop, cobj, csrc, cpkt, cwritten, mpc>>
ghostVars == <<moved, stopped, badclose, usage, handled, delivered,
               rdleft, wrleft>>
vars == <<objVars, hstate, thrVars, callVars, aborted, ghostVars>>

\* The ways a program uses the class that are explored:
\*   "single"  one interface, one owner thread, traffic on the link;
\*   "moves"   two interface objects that the owner thread also moves and
\*             destroys, on an idle link (nothing arrives, nothing is accepted);
\*   "shared"  one interface used by two caller threads at once, while the
\*             link delivers SharedReads packets and accepts none;
\*   "forward" the program of main.cpp: two interfaces, each forwarding what
\*             it captures to the other, traffic on the link;
\*   "handover" a running interface with traffic is move-assigned into
\*             another interface that has traffic counted;
\*   "selfstop" one interface whose packet handler stops the capture it runs
\*             in, [&iface](packet) { iface.stopCapture(); }, traffic on the
\*             link.
Usages == {"single", "moves", "shared", "forward", "handover", "selfstop"}

\* In the last three usages main runs a fixed sequence of calls.
Scripted == usage \in {"forward", "handover", "selfstop"}

Call(op, o, s, p) == [op |-> op, obj |-> o, src |-> s, pkt |-> p]

\* main(): interface1 and interface2 are constructed, initialized, started,
\* stopped at shutdown, and destroyed in reverse order when main returns.
ForwardScript ==
    <<Call("ctor", "b", "b", <<>>),
      Call("initialize", "a", "a", <<>>),
      Call("initialize", "b", "b", <<>>),
      Call("startCapture", "a", "a", <<>>),
      Call("startCapture", "b", "b", <<>>),
      Call("stopCapture", "a", "a", <<>>),
      Call("stopCapture", "b", "b", <<>>),
      Call("dtor", "b", "b", <<>>),
      Call("dtor", "a", "a", <<>>)>>

\* `return 1;` after a failed initialize or startCapture: main goes straight
\* to the destructors.
ForwardExit == 8

\* a sends a packet while it runs; b is set up and started; a = std::move(b).
HandoverScript ==
    <<Call("initialize", "a", "a", <<>>),
      Call("startCapture", "a", "a", <<>>),
      Call("writePacket", "a", "a", Packet(1)),
      Call("ctor", "b", "b", <<>>),
      Call("initialize", "b", "b", <<>>),
      Call("startCapture", "b", "b", <<>>),
      Call("moveAssign", "a", "b", <<>>)>>

\* a is started, started once more (a restart where the handler has stopped
\* the capture, a refused call where it has not), and destroyed.
SelfStopScript ==
    <<Call("initialize", "a", "a", <<>>),
      Call("startCapture", "a", "a", <<>>),
      Call("startCapture", "a", "a", <<>>),
      Call("dtor", "a", "a", <<>>)>>

Script ==
    IF usage = "forward" THEN ForwardScript
    ELSE IF usage = "handover" THEN HandoverScript
    ELSE IF usage = "selfstop" THEN SelfStopScript
    ELSE <<>>

\* Where main goes on after a call that returned r.
NextPos(r) ==
    IF ~Scripted THEN mpc
    ELSE IF usage = "forward" /\ r = "false" THEN ForwardExit
    ELSE mpc + 1

(* TunTapInterface(name, type): no device yet. *)
Init ==
    /\ usage \in Usages
    /\ rdleft = (IF usage \in {"single", "forward", "handover", "selfstop"} THEN MaxReads
                 ELSE IF usage = "shared" THEN SharedReads ELSE 0)
    /\ wrleft = (IF usage \in {"single", "forward", "handover"} THEN MaxWrites ELSE 0)
    /\ ostate = [o \in Objects |-> IF o = "a" THEN "alive" ELSE "unborn"]
    /\ name_ = [o \in Objects |-> IF o = "a" THEN "req" ELSE ""]
    /\ fd_ = [o \in Objects |-> InvalidFd]
    /\ running_ = [o \in Objects |-> FALSE]
    /\ capture_thread_ = [o \in Objects |-> NULL]
    /\ packets_received_ = [o \in Objects |-> 0]
    /\ packets_sent_ = [o \in Objects |-> 0]
    /\ bytes_received_ = [o \in Objects |-> 0]
    /\ bytes_sent_ = [o \in Objects |-> 0]
    /\ hstate = [h \in Handles |-> "free"]
    /\ tpc = [t \in Threads |-> "none"]
    /\ tthis = [t \in Threads |-> "a"]
    /\ tnread = [t \in Threads |-> 0]
    /\ tbuf = [t \in Threads |-> <<>>]
    /\ tjoined = [t \in Threads |-> FALSE]
    /\ rlog = [t \in Threads |-> <<>>]
    /\ hlog = [t \in Threads |-> <<>>]
    /\ cpc = [c \in Frames |-> "idle"]
    /\ cop = [c \in Frames |-> "none"]
    /\ cobj = [c \in Frames |-> "a"]
    /\ csrc = [c \in Frames |-> "a"]
    /\ cpkt = [c \in Frames |-> <<>>]
    /\ cret = [c \in Frames |-> "none"]
    /\ cwritten = [c \in Frames |-> 0]
    /\ mpc = 1
    /\ aborted = "no"
    /\ moved = [o \in Objects |-> FALSE]
    /\ stopped = [o \in Objects |-> FALSE]
    /\ badclose = FALSE
    /\ handled = [o \in Objects |-> 0]
    /\ delivered = [o \in Objects |-> 0]

(* ----------------------------------------------------------- the callers *)

\* The second caller thread exists only where the interface is shared.
MayCall(c) == c = "main" \/ usage = "shared"

\* The call is one the program makes now: in a scripted usage the next call
\* of main's script, else any call of a caller thread that exists.
Allowed(c, op, o, s, p) ==
    IF Scripted
    THEN c = "main" /\ mpc <= Len(Script) /\ Script[mpc] = Call(op, o, s, p)
    ELSE MayCall(c)

\* A caller enters member function op of object o.
Invoke(c, op, o, s, p, pc0) ==
    /\ aborted = "no"
    /\ Allowed(c, op, o, s, p)
    /\ cpc[c] = "idle"
    /\ cpc' = [cpc EXCEPT ![c] = pc0]
    /\ cop' = [cop EXCEPT ![c] = op]
    /\ cobj' = [cobj EXCEPT ![c] = o]
    /\ csrc' = [csrc EXCEPT ![c] = s]
    /\ cpkt' = [cpkt EXCEPT ![c] = p]
    /\ UNCHANGED <<cret, cwritten, mpc>>

\* The caller is at label l of the function it is in.
At(c, l) == aborted = "no" /\ cpc[c] = l

Goto(c, l) == cpc' = [cpc EXCEPT ![c] = l] /\ UNCHANGED <<cret, argVars>>

\* The function is about to return r.
Finish(c, r) ==
    /\ cpc' = [cpc EXCEPT ![c] = "ret"]
    /\ cret' = [cret EXCEPT ![c] = r]
    /\ UNCHANGED argVars

\* The function returns to its caller.
Return(c) ==
    /\ At(c, "ret")
    /\ cpc' = [cpc EXCEPT ![c] = "idle"]
    /\ cop' = [cop EXCEPT ![c] = "none"]
    /\ cobj' = [cobj EXCEPT ![c] = "a"]
    /\ csrc' = [csrc EXCEPT ![c] = "a"]
    /\ cpkt' = [cpkt EXCEPT ![c] = <<>>]
    /\ cret' = [cret EXCEPT ![c] = "none"]
    /\ cwritten' = [cwritten EXCEPT ![c] = 0]
    /\ mpc' = NextPos(cret[c])
    /\ UNCHANGED <<objVars, hstate, thrVars, aborted, ghostVars>>

\* A std::thread object is joinable until it has been joined.
Joinable(t) == ~tjoined[t]

\* Destroying the std::thread that pointer p owns: std::terminate if joinable.
DeleteAborts(p) == p # NULL /\ Joinable(p)

FreeThreads == {t \in Threads : tpc[t] = "none"}
FreeHandles == {h \in Handles : hstate[h] = "free"}
NextThread == CHOOSE t \in FreeThreads : \A u \in FreeThreads : t <= u
NextHandle == CHOOSE h \in FreeHandles : \A u \in FreeHandles : h <= u

(* ------------------------------------------------------------ the device *)

\* What read(fd, buffer, buffer_size) on a non-blocking TUN/TAP handle can
\* give: an error, zero bytes, or one whole packet (cut to buffer_size).
DeviceRead(h) ==
    IF h \in Handles /\ hstate[h] = "open"
    THEN {[nread |-> -1, errno |-> "EAGAIN", data |-> <<>>],
          [nread |-> -1, errno |-> "EIO", data |-> <<>>],
          [nread |-> 0, errno |-> "none", data |-> <<>>]}
         \cup (IF rdleft > 0
               THEN {[nread |-> Min(Len(p), buffer_size), errno |-> "none",
                      data |-> SubSeq(p, 1, Min(Len(p), buffer_size))] : p \in Packets}
               ELSE {})
    ELSE {[nread |-> -1, errno |-> "EBADF", data |-> <<>>]}

\* What write(fd, data, size) can give: an error, or the number of bytes
\* taken, which write(2) allows to be fewer than asked for.
DeviceWrite(h, p) ==
    IF h \in Handles /\ hstate[h] = "open"
    THEN {[written |-> -1, errno |-> "EAGAIN"], [written |-> -1, errno |-> "EIO"]}
         \cup (IF wrleft > 0
               THEN {[written |-> n, errno |-> "none"] : n \in 1..Len(p)}
               ELSE {})
    ELSE {[written |-> -1, errno |-> "EBADF"]}

\* close(h)
CloseHandle(h) ==
    /\ hstate' = IF h \in Handles /\ hstate[h] = "open"
                 THEN [hstate EXCEPT ![h] = "closed"] ELSE hstate
    /\ badclose' = (badclose \/ ~(h \in Handles /\ hstate[h] = "open"))

(* ------------------------------------------------------------ initialize *)

InitializeCall(c) ==
    \E o \in Objects :
        /\ ostate[o] = "alive"
        /\ FreeHandles # {}
        /\ Invoke(c, "initialize", o, o, <<>>, "in_open")
        /\ UNCHANGED <<objVars, hstate, thrVars, aborted, ghostVars>>

\* fd_ = open("/dev/net/tun", O_RDWR); if (fd_ < 0) return false;
InitializeOpen(c) ==
    /\ At(c, "in_open")
    /\ \E ok \in BOOLEAN :
        IF ok
        THEN /\ hstate' = [hstate EXCEPT ![NextHandle] = "open"]
             /\ fd_' = [fd_ EXCEPT ![cobj[c]] = NextHandle]
             /\ Goto(c, "in_ioctl")
        ELSE /\ fd_' = [fd_ EXCEPT ![cobj[c]] = InvalidFd]
             /\ Finish(c, "false")
             /\ UNCHANGED hstate
    /\ UNCHANGED <<ostate, name_, running_, capture_thread_, rxVars, txVars,
                   thrVars, aborted, ghostVars>>

\* if (ioctl(fd_, TUNSETIFF, &ifr) < 0) { close(fd_); fd_ = -1; return false; }
\* name_ = ifr.ifr_name;
InitializeIoctl(c) ==
    /\ At(c, "in_ioctl")
    /\ \E ok \in BOOLEAN :
        IF ok
        THEN /\ name_' = [name_ EXCEPT ![cobj[c]] = "kern"]
             /\ Goto(c, "in_fcntl")
             /\ UNCHANGED <<fd_, hstate, badclose>>
        ELSE /\ CloseHandle(fd_[cobj[c]])
             /\ fd_' = [fd_ EXCEPT ![cobj[c]] = InvalidFd]
             /\ Finish(c, "false")
             /\ UNCHANGED name_
    /\ UNCHANGED <<ostate, running_, capture_thread_, rxVars, txVars,
                   thrVars, aborted, moved, stopped, usage, handled, delivered, rdleft, wrleft>>

\* if (flags < 0 || fcntl(fd_, F_SETFL, flags | O_NONBLOCK) < 0)
\*     { close(fd_); fd_ = -1; return false; }   return true;
InitializeFcntl(c) ==
    /\ At(c, "in_fcntl")
    /\ \E ok \in BOOLEAN :
        IF ok
        THEN /\ Finish(c, "true")
             /\ UNCHANGED <<fd_, hstate, badclose>>
        ELSE /\ CloseHandle(fd_[cobj[c]])
             /\ fd_' = [fd_ EXCEPT ![cobj[c]] = InvalidFd]
             /\ Finish(c, "false")
    /\ UNCHANGED <<ostate, name_, running_, capture_thread_, rxVars, txVars,
                   thrVars, aborted, moved, stopped, usage, handled, delivered, rdleft, wrleft>>

(* ---------------------------------------------------------- startCapture *)

StartCaptureCall(c) ==
    \E o \in Objects :
        /\ ostate[o] = "alive"
        /\ Cardinality(FreeThreads) > Cardinality({d \in Callers : cop[d] = "startCapture"})
        /\ Invoke(c, "startCapture", o, o, <<>>, "sc_fd")
        /\ UNCHANGED <<objVars, hstate, thrVars, aborted, ghostVars>>

\* fd_ < 0
NotInitialized(o) == fd_[o] < 0

\* if (fd_ < 0) return false;
StartCaptureFd(c) ==
    /\ At(c, "sc_fd")
    /\ IF NotInitialized(cobj[c]) THEN Finish(c, "false") ELSE Goto(c, "sc_running")
    /\ UNCHANGED <<objVars, hstate, thrVars, aborted, ghostVars>>

\* A faulty AlreadyRunning: the running_ test is missing.
AlreadyRunning_Dropped(o) == FALSE

\* running_ (the atomic load)
AlreadyRunning(o) == running_[o]

\* if (running_) return false;
StartCaptureRunning(c) ==
    /\ At(c, "sc_running")
    /\ IF AlreadyRunning(cobj[c]) THEN Finish(c, "false") ELSE Goto(c, "sc_set")
    /\ UNCHANGED <<objVars, hstate, thrVars, aborted, ghostVars>>

\* running_ = true;
StartCaptureSet(c) ==
    /\ At(c, "sc_set")
    /\ running_' = [running_ EXCEPT ![cobj[c]] = TRUE]
    /\ stopped' = [stopped EXCEPT ![cobj[c]] = FALSE]
    /\ Goto(c, "sc_spawn")
    /\ UNCHANGED <<ostate, name_, fd_, capture_thread_, rxVars, txVars, hstate,
                   thrVars, aborted, moved, badclose, usage, handled, delivered, rdleft, wrleft>>

\* capture_thread_ = std::make_unique<std::thread>(&captureThreadFunc, this, handler);
\* return true;   The thread it replaces, if any, is destroyed.
StartCaptureSpawn(c) ==
    /\ At(c, "sc_spawn")
    /\ FreeThreads # {}
    /\ tpc' = [tpc EXCEPT ![NextThread] = "while"]
    /\ tthis' = [tthis EXCEPT ![NextThread] = cobj[c]]
    /\ capture_thread_' = [capture_thread_ EXCEPT ![cobj[c]] = NextThread]
    /\ aborted' = IF DeleteAborts(capture_thread_[cobj[c]]) THEN "terminate" ELSE aborted
    /\ Finish(c, "true")
    /\ UNCHANGED <<ostate, name_, fd_, running_, rxVars, txVars, hstate,
                   tnread, tbuf, tjoined, rlog, hlog, ghostVars>>

(* ----------------------------------------------------------- stopCapture *)

StopCaptureCall(c) ==
    \E o \in Objects :
        /\ ostate[o] = "alive"
        /\ Invoke(c, "stopCapture", o, o, <<>>, "st_chk")
        /\ UNCHANGED <<objVars, hstate, thrVars, aborted, ghostVars>>

\* stopCapture is also the first thing the destructor and the move assignment
\* do: where the caller goes on once stopCapture is through.
AfterStop(c) ==
    CASE cop[c] = "dtor" -> Goto(c, "dt_close")
      [] cop[c] = "moveAssign" -> Goto(c, "ma_close")
      [] OTHER -> Finish(c, "void")

\* A faulty StopGuard: only the pointer is tested.
StopGuard_PointerOnly(o) == capture_thread_[o] # NULL

\* running_ && capture_thread_
StopGuard(o) == running_[o] /\ capture_thread_[o] # NULL

\* if (running_ && capture_thread_) { ... }
StopCaptureCheck(c) ==
    /\ At(c, "st_chk")
    /\ IF StopGuard(cobj[c]) THEN Goto(c, "st_set") ELSE AfterStop(c)
    /\ UNCHANGED <<objVars, hstate, thrVars, aborted, ghostVars>>

\* running_ = false;
StopCaptureSet(c) ==
    /\ At(c, "st_set")
    /\ running_' = [running_ EXCEPT ![cobj[c]] = FALSE]
    /\ Goto(c, "st_join")
    /\ UNCHANGED <<ostate, name_, fd_, capture_thread_, rxVars, txVars, hstate,
                   thrVars, aborted, ghostVars>>

\* if (capture_thread_->joinable()) capture_thread_->join();
\* join() blocks until the thread function has returned.
StopCaptureJoin(c) ==
    /\ At(c, "st_join")
    /\ LET p == capture_thread_[cobj[c]] IN
        IF p = NULL
        THEN /\ aborted' = "null_deref"
             /\ UNCHANGED <<tjoined, callVars>>
        ELSE IF ~Joinable(p)
        THEN /\ Goto(c, "st_reset")
             /\ UNCHANGED <<tjoined, aborted>>
        ELSE /\ tpc[p] = "done"
             /\ tjoined' = [tjoined EXCEPT ![p] = TRUE]
             /\ Goto(c, "st_reset")
             /\ UNCHANGED aborted
    /\ UNCHANGED <<objVars, hstate, tpc, tthis, tnread, tbuf, rlog, hlog, ghostVars>>

\* capture_thread_.reset();
StopCaptureReset(c) ==
    /\ At(c, "st_reset")
    /\ capture_thread_' = [capture_thread_ EXCEPT ![cobj[c]] = NULL]
    /\ aborted' = IF DeleteAborts(capture_thread_[cobj[c]]) THEN "terminate" ELSE aborted
    /\ stopped' = [stopped EXCEPT ![cobj[c]] = TRUE]
    /\ AfterStop(c)
    /\ UNCHANGED <<ostate, name_, fd_, running_, rxVars, txVars, hstate,
                   thrVars, moved, badclose, usage, handled, delivered, rdleft, wrleft>>

(* ----------------------------------------------------------- writePacket *)

WritePacketCall(c) ==
    \E o \in Objects, p \in Packets :
        /\ ostate[o] = "alive"
        /\ Invoke(c, "writePacket", o, o, p, "wp_chk")
        /\ UNCHANGED <<objVars, hstate, thrVars, aborted, ghostVars>>

\* A faulty WriteRefused: only the handle is tested.
WriteRefused_FdOnly(o) == fd_[o] < 0

\* fd_ < 0 || !running_
WriteRefused(o) == fd_[o] < 0 \/ ~running_[o]

\* if (fd_ < 0 || !running_) return false;
WritePacketCheck(c) ==
    /\ At(c, "wp_chk")
    /\ IF WriteRefused(cobj[c]) THEN Finish(c, "false") ELSE Goto(c, "wp_write")
    /\ UNCHANGED <<objVars, hstate, thrVars, aborted, ghostVars>>

\* A faulty WriteFailed: the result of write() is not tested.
WriteFailed_Never(r) == FALSE

\* written < 0
WriteFailed(r) == r.written < 0

\* ssize_t written = write(fd_, packet.data(), packet.size());
\* if (written < 0) return false;
WritePacketWrite(c) ==
    /\ At(c, "wp_write")
    /\ \E r \in DeviceWrite(fd_[cobj[c]], cpkt[c]) :
        IF WriteFailed(r)
        THEN /\ Finish(c, "false")
             /\ UNCHANGED wrleft
        ELSE /\ cpc' = [cpc EXCEPT ![c] = "wp_cnt_p"]
             /\ cwritten' = [cwritten EXCEPT ![c] = r.written]
             /\ wrleft' = wrleft - 1
             /\ UNCHANGED <<cop, cobj, csrc, cpkt, cret, mpc>>
    /\ UNCHANGED <<objVars, hstate, thrVars, aborted, moved, stopped, badclose, usage, handled, delivered, rdleft>>

\* packets_sent_++;
WritePacketCountPackets(c) ==
    /\ At(c, "wp_cnt_p")
    /\ packets_sent_' = [packets_sent_ EXCEPT ![cobj[c]] = @ + 1]
    /\ Goto(c, "wp_cnt_b")
    /\ UNCHANGED <<ostate, name_, fd_, running_, capture_thread_, rxVars, bytes_sent_,
                   hstate, thrVars, aborted, ghostVars>>

\* A faulty SentBytes: bytes_sent_ += packet.size().
SentBytes_PacketSize(c) == Len(cpkt[c])

\* What writePacket adds to bytes_sent_: the value write() returned.
SentBytes(c) == cwritten[c]

\* bytes_sent_ += written; return true;
WritePacketCountBytes(c) ==
    /\ At(c, "wp_cnt_b")
    /\ bytes_sent_' = [bytes_sent_ EXCEPT ![cobj[c]] = @ + SentBytes(c)]
    /\ Finish(c, "true")
    /\ UNCHANGED <<ostate, name_, fd_, running_, capture_thread_, rxVars, packets_sent_,
                   hstate, thrVars, aborted, ghostVars>>

(* ----------------------------------------------------- captureThreadFunc *)

\* The capture thread reads the members of the object it was bound to.  Once
\* that object is destroyed the reads are of freed storage: any value.
RunningSeen(t) ==
    IF ostate[tthis[t]] = "dead" THEN BOOLEAN ELSE {running_[tthis[t]]}

FdSeen(t) ==
    IF ostate[tthis[t]] = "dead" THEN {InvalidFd} \cup Handles ELSE {fd_[tthis[t]]}

\* while (running_)
CaptureWhile(t) ==
    /\ aborted = "no"
    /\ tpc[t] = "while"
    /\ \E r \in RunningSeen(t) :
        /\ tpc' = [tpc EXCEPT ![t] = IF r THEN "read" ELSE "done"]
        /\ tbuf' = [tbuf EXCEPT ![t] = IF r THEN @ ELSE <<>>]
    /\ hlog' = [hlog EXCEPT ![t] = <<>>]
    /\ UNCHANGED <<objVars, hstate, tthis, tnread, tjoined, rlog,
                   callVars, aborted, ghostVars>>

\* read() stores the bytes it returns at the start of the scratch buffer and
\* leaves the rest of the buffer as it was.
StoreRead(buf, data) == data \o SubSeq(buf, Len(data) + 1, Len(buf))

\* Where the loop goes after read(): the two branches on nread.
AfterRead(r) ==
    IF r.nread < 0
    THEN IF r.errno # "EAGAIN" THEN "sleep10" ELSE "while"
    ELSE IF r.nread > 0 THEN "cnt_p" ELSE "sleep1"

\* ssize_t nread = read(fd_, buffer.data(), buffer.size());
CaptureRead(t) ==
    /\ aborted = "no"
    /\ tpc[t] = "read"
    /\ \E h \in FdSeen(t) : \E r \in DeviceRead(h) :
        /\ tpc' = [tpc EXCEPT ![t] = AfterRead(r)]
        /\ tnread' = [tnread EXCEPT ![t] = IF r.nread > 0 THEN r.nread ELSE 0]
        /\ tbuf' = [tbuf EXCEPT ![t] = StoreRead(@, r.data)]
        /\ rlog' = [rlog EXCEPT ![t] = r.data]
        /\ rdleft' = IF r.nread > 0 THEN rdleft - 1 ELSE rdleft
    /\ UNCHANGED <<objVars, hstate, tthis, tjoined, hlog, callVars, aborted,
                   moved, stopped, badclose, usage, handled, delivered, wrleft>>

\* packets_received_++;
CaptureCountPackets(t) ==
    /\ aborted = "no"
    /\ tpc[t] = "cnt_p"
    /\ packets_received_' = [packets_received_ EXCEPT ![tthis[t]] = @ + 1]
    /\ tpc' = [tpc EXCEPT ![t] = "cnt_b"]
    /\ UNCHANGED <<ostate, name_, fd_, running_, capture_thread_, bytes_received_,
                   txVars, hstate, tthis, tnread, tbuf, tjoined, rlog, hlog,
                   callVars, aborted, ghostVars>>

\* bytes_received_ += nread;
CaptureCountBytes(t) ==
    /\ aborted = "no"
    /\ tpc[t] = "cnt_b"
    /\ bytes_received_' = [bytes_received_ EXCEPT ![tthis[t]] = @ + tnread[t]]
    /\ tpc' = [tpc EXCEPT ![t] = "handler"]
    /\ UNCHANGED <<ostate, name_, fd_, running_, capture_thread_, packets_received_,
                   txVars, hstate, tthis, tnread, tbuf, tjoined, rlog, hlog,
                   callVars, aborted, ghostVars>>

\* Byte i of the 2048-byte scratch buffer, which starts zeroed.
BufferByte(buf, i) == IF i <= Len(buf) THEN buf[i] ELSE 0

\* A faulty MakePacket: the handler gets the scratch buffer as it stands.
MakePacket_WholeBuffer(buf, n) == buf

\* std::vector<uint8_t> packet(buffer.begin(), buffer.begin() + nread);
MakePacket(buf, n) == [i \in 1..n |-> BufferByte(buf, i)]

\* What a handler call can do: return, throw something derived from
\* std::exception, or throw anything else.
HandlerOutcomes == {"return", "throw_std", "throw_other"}

\* catch (const std::exception& e)
Caught(outcome) == outcome = "throw_std"

\* packet_handler(packet) is entered by thread t: one more invocation for the
\* object the thread runs on, with a buffer of Len(pk) bytes.
Deliver(t, pk) ==
    /\ handled' = [handled EXCEPT ![tthis[t]] = @ + 1]
    /\ delivered' = [delivered EXCEPT ![tthis[t]] = @ + Len(pk)]

\* try { packet_handler(packet); } catch (const std::exception& e) { ... }
\* An exception that leaves the thread function ends the process.
CaptureHandler(t) ==
    /\ aborted = "no"
    /\ usage \notin {"forward", "selfstop"}
    /\ tpc[t] = "handler"
    /\ hlog' = [hlog EXCEPT ![t] = MakePacket(tbuf[t], tnread[t])]
    /\ Deliver(t, MakePacket(tbuf[t], tnread[t]))
    /\ rlog' = [rlog EXCEPT ![t] = <<>>]
    /\ tnread' = [tnread EXCEPT ![t] = 0]
    /\ \E outcome \in HandlerOutcomes :
        IF outcome = "return" \/ Caught(outcome)
        THEN /\ tpc' = [tpc EXCEPT ![t] = "while"]
             /\ UNCHANGED aborted
        ELSE /\ aborted' = "uncaught_exception"
             /\ UNCHANGED tpc
    /\ UNCHANGED <<objVars, hstate, tthis, tbuf, tjoined, callVars,
                   moved, stopped, badclose, usage, rdleft, wrleft>>

\* handler1 forwards to interface2, handler2 to interface1.
Peer(o) == IF o = "a" THEN "b" ELSE "a"

\* The handler of main.cpp: [&other](packet) { other.writePacket(packet); }
\* The capture thread enters writePacket of the other interface.
CaptureForward(t) ==
    /\ aborted = "no"
    /\ usage = "forward"
    /\ tpc[t] = "handler"
    /\ LET pk == MakePacket(tbuf[t], tnread[t])
           f == Frame(t)
       IN /\ hlog' = [hlog EXCEPT ![t] = pk]
          /\ Deliver(t, pk)
          /\ cpc' = [cpc EXCEPT ![f] = "wp_chk"]
          /\ cop' = [cop EXCEPT ![f] = "writePacket"]
          /\ cobj' = [cobj EXCEPT ![f] = Peer(tthis[t])]
          /\ csrc' = [csrc EXCEPT ![f] = Peer(tthis[t])]
          /\ cpkt' = [cpkt EXCEPT ![f] = pk]
    /\ rlog' = [rlog EXCEPT ![t] = <<>>]
    /\ tnread' = [tnread EXCEPT ![t] = 0]
    /\ tpc' = [tpc EXCEPT ![t] = "in_handler"]
    /\ UNCHANGED <<objVars, hstate, tthis, tbuf, tjoined, cret, cwritten, mpc,
                   aborted, moved, stopped, badclose, usage, rdleft, wrleft>>

\* writePacket has returned into the handler, which drops the result and
\* returns to the loop.
ForwardReturn(t) ==
    /\ tpc[t] = "in_handler"
    /\ At(Frame(t), "ret")
    /\ LET f == Frame(t)
       IN /\ cpc' = [cpc EXCEPT ![f] = "idle"]
          /\ cop' = [cop EXCEPT ![f] = "none"]
          /\ cobj' = [cobj EXCEPT ![f] = "a"]
          /\ csrc' = [csrc EXCEPT ![f] = "a"]
          /\ cpkt' = [cpkt EXCEPT ![f] = <<>>]
          /\ cret' = [cret EXCEPT ![f] = "none"]
          /\ cwritten' = [cwritten EXCEPT ![f] = 0]
    /\ tpc' = [tpc EXCEPT ![t] = "while"]
    /\ UNCHANGED <<objVars, hstate, tthis, tnread, tbuf, tjoined, rlog, hlog, mpc,
                   aborted, ghostVars>>

\* A handler that stops the capture: [&iface](packet) { iface.stopCapture(); }
\* The capture thread enters stopCapture of the interface it runs on.
CaptureStopSelf(t) ==
    /\ aborted = "no"
    /\ usage = "selfstop"
    /\ tpc[t] = "handler"
    /\ LET pk == MakePacket(tbuf[t], tnread[t])
           f == Frame(t)
       IN /\ hlog' = [hlog EXCEPT ![t] = pk]
          /\ Deliver(t, pk)
          /\ cpc' = [cpc EXCEPT ![f] = "st_chk"]
          /\ cop' = [cop EXCEPT ![f] = "stopCapture"]
          /\ cobj' = [cobj EXCEPT ![f] = tthis[t]]
          /\ csrc' = [csrc EXCEPT ![f] = tthis[t]]
    /\ rlog' = [rlog EXCEPT ![t] = <<>>]
    /\ tnread' = [tnread EXCEPT ![t] = 0]
    /\ tpc' = [tpc EXCEPT ![t] = "in_handler"]
    /\ UNCHANGED <<objVars, hstate, tthis, tbuf, tjoined, cpkt, cret, cwritten, mpc,
                   aborted, moved, stopped, badclose, usage, rdleft, wrleft>>

\* capture_thread_->join() called by the thread that capture_thread_ owns:
\* joinable() is true, and join() throws std::system_error
\* (resource_deadlock_would_occur) without joining.  The exception leaves
\* stopCapture and the handler and is caught by catch (const std::exception&)
\* in the capture loop; running_ is false by then.
StopCaptureJoinSelf(t) ==
    /\ tpc[t] = "in_handler"
    /\ At(Frame(t), "st_join")
    /\ capture_thread_[cobj[Frame(t)]] = t
    /\ Joinable(t)
    /\ LET f == Frame(t)
       IN /\ cpc' = [cpc EXCEPT ![f] = "idle"]
          /\ cop' = [cop EXCEPT ![f] = "none"]
          /\ cobj' = [cobj EXCEPT ![f] = "a"]
          /\ csrc' = [csrc EXCEPT ![f] = "a"]
    /\ tpc' = [tpc EXCEPT ![t] = "while"]
    /\ UNCHANGED <<objVars, hstate, tthis, tnread, tbuf, tjoined, rlog, hlog,
                   cpkt, cret, cwritten, mpc, aborted, ghostVars>>

\* std::this_thread::sleep_for(...): 10 ms after a read error, 1 ms after an
\* empty read.
CaptureSleep(t) ==
    /\ aborted = "no"
    /\ tpc[t] \in {"sleep1", "sleep10"}
    /\ tpc' = [tpc EXCEPT ![t] = "while"]
    /\ UNCHANGED <<objVars, hstate, tthis, tnread, tbuf, tjoined, rlog, hlog,
                   callVars, aborted, ghostVars>>

(* ------------------------------------------ construction, move, teardown *)

\* TunTapInterface(const std::string& name, Type type)
Construct(c) ==
    \E o \in Objects :
        /\ usage \in {"moves", "forward", "handover"}
        /\ ostate[o] = "unborn"
        /\ Invoke(c, "ctor", o, o, <<>>, "ret")
        /\ ostate' = [ostate EXCEPT ![o] = "alive"]
        /\ name_' = [name_ EXCEPT ![o] = "req"]
        /\ UNCHANGED <<fd_, running_, capture_thread_, rxVars, txVars, hstate,
                       thrVars, aborted, ghostVars>>

MoveCtorCall(c) ==
    \E o \in Objects, s \in Objects :
        /\ usage = "moves"
        /\ ostate[o] = "unborn"
        /\ ostate[s] = "alive"
        /\ Invoke(c, "moveCtor", o, s, <<>>, "mc_init")
        /\ UNCHANGED <<objVars, hstate, thrVars, aborted, ghostVars>>

\* name_(std::move(other.name_)), type_(other.type_), fd_(other.fd_),
\* running_(other.running_.load()), capture_thread_(std::move(other.capture_thread_))
MoveCtorInit(c) ==
    /\ At(c, "mc_init")
    /\ ostate' = [ostate EXCEPT ![cobj[c]] = "alive"]
    /\ name_' = [name_ EXCEPT ![cobj[c]] = name_[csrc[c]], ![csrc[c]] = ""]
    /\ fd_' = [fd_ EXCEPT ![cobj[c]] = fd_[csrc[c]]]
    /\ running_' = [running_ EXCEPT ![cobj[c]] = running_[csrc[c]]]
    /\ capture_thread_' = [capture_thread_ EXCEPT ![cobj[c]] = capture_thread_[csrc[c]],
                                                  ![csrc[c]] = NULL]
    /\ moved' = [moved EXCEPT ![cobj[c]] = TRUE, ![csrc[c]] = TRUE]
    /\ Goto(c, "mc_cnt_p")
    /\ UNCHANGED <<rxVars, txVars, hstate, thrVars, aborted, stopped, badclose,
                   usage, handled, delivered, rdleft, wrleft>>

\* packets_received_(other.packets_received_.load()),
\* packets_sent_(other.packets_sent_.load())
MoveCtorPackets(c) ==
    /\ At(c, "mc_cnt_p")
    /\ packets_received_' = [packets_received_ EXCEPT ![cobj[c]] = packets_received_[csrc[c]]]
    /\ packets_sent_' = [packets_sent_ EXCEPT ![cobj[c]] = packets_sent_[csrc[c]]]
    /\ Goto(c, "mc_cnt_b")
    /\ UNCHANGED <<ostate, name_, fd_, running_, capture_thread_, bytes_received_,
                   bytes_sent_, hstate, thrVars, aborted, ghostVars>>

\* bytes_received_(other.bytes_received_.load()), bytes_sent_(other.bytes_sent_.load())
MoveCtorBytes(c) ==
    /\ At(c, "mc_cnt_b")
    /\ bytes_received_' = [bytes_received_ EXCEPT ![cobj[c]] = bytes_received_[csrc[c]]]
    /\ bytes_sent_' = [bytes_sent_ EXCEPT ![cobj[c]] = bytes_sent_[csrc[c]]]
    /\ Goto(c, "mc_reset")
    /\ UNCHANGED <<ostate, name_, fd_, running_, capture_thread_, packets_received_,
                   packets_sent_, hstate, thrVars, aborted, ghostVars>>

\* other.fd_ = -1; other.running_ = false;
MoveCtorReset(c) ==
    /\ At(c, "mc_reset")
    /\ fd_' = [fd_ EXCEPT ![csrc[c]] = InvalidFd]
    /\ running_' = [running_ EXCEPT ![csrc[c]] = FALSE]
    /\ Finish(c, "void")
    /\ UNCHANGED <<ostate, name_, capture_thread_, rxVars, txVars, hstate, thrVars,
                   aborted, ghostVars>>

\* operator=(TunTapInterface&& other): if (this != &other) { stopCapture(); ...
MoveAssignCall(c) ==
    \E o \in Objects, s \in Objects :
        /\ usage \in {"moves", "handover"}
        /\ ostate[o] = "alive"
        /\ ostate[s] = "alive"
        /\ Invoke(c, "moveAssign", o, s, <<>>, IF o # s THEN "st_chk" ELSE "ma_self")
        /\ UNCHANGED <<objVars, hstate, thrVars, aborted, ghostVars>>

\* this == &other: return *this;
MoveAssignSelf(c) ==
    /\ At(c, "ma_self")
    /\ Finish(c, "void")
    /\ UNCHANGED <<objVars, hstate, thrVars, aborted, ghostVars>>

\* if (fd_ >= 0) close(fd_);
MoveAssignClose(c) ==
    /\ At(c, "ma_close")
    /\ IF fd_[cobj[c]] >= 0
       THEN CloseHandle(fd_[cobj[c]])
       ELSE UNCHANGED <<hstate, badclose>>
    /\ Goto(c, "ma_move")
    /\ UNCHANGED <<objVars, thrVars, aborted, moved, stopped, usage, handled, delivered, rdleft, wrleft>>

\* name_ = std::move(other.name_); type_ = other.type_; fd_ = other.fd_;
\* running_ = other.running_.load();
\* capture_thread_ = std::move(other.capture_thread_);
\* The thread object the destination still owns, if any, is destroyed.
MoveAssignMove(c) ==
    /\ At(c, "ma_move")
    /\ name_' = [name_ EXCEPT ![cobj[c]] = name_[csrc[c]], ![csrc[c]] = ""]
    /\ fd_' = [fd_ EXCEPT ![cobj[c]] = fd_[csrc[c]]]
    /\ running_' = [running_ EXCEPT ![cobj[c]] = running_[csrc[c]]]
    /\ capture_thread_' = [capture_thread_ EXCEPT ![cobj[c]] = capture_thread_[csrc[c]],
                                                  ![csrc[c]] = NULL]
    /\ aborted' = IF DeleteAborts(capture_thread_[cobj[c]]) THEN "terminate" ELSE aborted
    /\ moved' = [moved EXCEPT ![cobj[c]] = TRUE, ![csrc[c]] = TRUE]
    /\ stopped' = [stopped EXCEPT ![cobj[c]] = FALSE]
    /\ Goto(c, "ma_cnt_p")
    /\ UNCHANGED <<ostate, rxVars, txVars, hstate, thrVars, badclose, usage, handled, delivered, rdleft, wrleft>>

\* packets_received_ = other.packets_received_.load();
\* packets_sent_ = other.packets_sent_.load();
MoveAssignPackets(c) ==
    /\ At(c, "ma_cnt_p")
    /\ packets_received_' = [packets_received_ EXCEPT ![cobj[c]] = packets_received_[csrc[c]]]
    /\ packets_sent_' = [packets_sent_ EXCEPT ![cobj[c]] = packets_sent_[csrc[c]]]
    /\ Goto(c, "ma_cnt_b")
    /\ UNCHANGED <<ostate, name_, fd_, running_, capture_thread_, bytes_received_,
                   bytes_sent_, hstate, thrVars, aborted, ghostVars>>

\* bytes_received_ = other.bytes_received_.load();
\* bytes_sent_ = other.bytes_sent_.load();
MoveAssignBytes(c) ==
    /\ At(c, "ma_cnt_b")
    /\ bytes_received_' = [bytes_received_ EXCEPT ![cobj[c]] = bytes_received_[csrc[c]]]
    /\ bytes_sent_' = [bytes_sent_ EXCEPT ![cobj[c]] = bytes_sent_[csrc[c]]]
    /\ Goto(c, "ma_reset")
    /\ UNCHANGED <<ostate, name_, fd_, running_, capture_thread_, packets_received_,
                   packets_sent_, hstate, thrVars, aborted, ghostVars>>

\* other.fd_ = -1; other.running_ = false; return *this;
MoveAssignReset(c) ==
    /\ At(c, "ma_reset")
    /\ fd_' = [fd_ EXCEPT ![csrc[c]] = InvalidFd]
    /\ running_' = [running_ EXCEPT ![csrc[c]] = FALSE]
    /\ Finish(c, "void")
    /\ UNCHANGED <<ostate, name_, capture_thread_, rxVars, txVars, hstate, thrVars,
                   aborted, ghostVars>>

\* ~TunTapInterface(): stopCapture(); ...
DtorCall(c) ==
    \E o \in Objects :
        /\ usage # "shared"
        /\ ostate[o] = "alive"
        /\ Invoke(c, "dtor", o, o, <<>>, "st_chk")
        /\ UNCHANGED <<objVars, hstate, thrVars, aborted, ghostVars>>

\* if (fd_ >= 0) { close(fd_); fd_ = -1; }  and then the members are
\* destroyed: a capture_thread_ that still owns a joinable thread terminates
\* the process.
DtorClose(c) ==
    /\ At(c, "dt_close")
    /\ IF fd_[cobj[c]] >= 0
       THEN CloseHandle(fd_[cobj[c]])
       ELSE UNCHANGED <<hstate, badclose>>
    /\ fd_' = [fd_ EXCEPT ![cobj[c]] = InvalidFd]
    /\ aborted' = IF DeleteAborts(capture_thread_[cobj[c]]) THEN "terminate" ELSE aborted
    /\ capture_thread_' = [capture_thread_ EXCEPT ![cobj[c]] = NULL]
    /\ ostate' = [ostate EXCEPT ![cobj[c]] = "dead"]
    /\ Finish(c, "void")
    /\ UNCHANGED <<name_, running_, rxVars, txVars, thrVars, moved, stopped,
                   usage, handled, delivered, rdleft, wrleft>>

(* ---------------------------------------------------- the specifications *)

\* The capture threads.
Capture ==
    \E t \in Threads :
        \/ CaptureWhile(t)
        \/ CaptureRead(t)
        \/ CaptureCountPackets(t)
        \/ CaptureCountBytes(t)
        \/ CaptureHandler(t)
        \/ CaptureSleep(t)
        \/ CaptureForward(t)
        \/ WritePacketCheck(Frame(t)) \/ WritePacketWrite(Frame(t))
        \/ WritePacketCountPackets(Frame(t)) \/ WritePacketCountBytes(Frame(t))
        \/ ForwardReturn(t)
        \/ CaptureStopSelf(t)
        \/ StopCaptureCheck(Frame(t)) \/ StopCaptureSet(Frame(t))
        \/ StopCaptureJoinSelf(t)

\* The calls every caller thread may make on a live interface.
Use(c) ==
    \/ StartCaptureCall(c) \/ StartCaptureFd(c) \/ StartCaptureRunning(c)
    \/ StartCaptureSet(c) \/ StartCaptureSpawn(c)
    \/ StopCaptureCall(c) \/ StopCaptureCheck(c) \/ StopCaptureSet(c)
    \/ StopCaptureJoin(c) \/ StopCaptureReset(c)
    \/ WritePacketCall(c) \/ WritePacketCheck(c) \/ WritePacketWrite(c)
    \/ WritePacketCountPackets(c) \/ WritePacketCountBytes(c)
    \/ Return(c)

Setup(c) ==
    \/ InitializeCall(c) \/ InitializeOpen(c) \/ InitializeIoctl(c)
    \/ InitializeFcntl(c)

\* What only the thread that owns the objects does.
Lifetime(c) ==
    \/ Construct(c)
    \/ MoveCtorCall(c) \/ MoveCtorInit(c) \/ MoveCtorPackets(c)
    \/ MoveCtorBytes(c) \/ MoveCtorReset(c)
    \/ MoveAssignCall(c) \/ MoveAssignSelf(c) \/ MoveAssignClose(c)
    \/ MoveAssignMove(c) \/ MoveAssignPackets(c) \/ MoveAssignBytes(c)
    \/ MoveAssignReset(c)

Teardown(c) == DtorCall(c) \/ DtorClose(c)

\* The owner thread "main" sets up, uses, moves and destroys the interfaces;
\* "aux" is the second thread of the shared usage; the capture threads run
\* beside them.
Next ==
    \/ Use("main") \/ Use("aux")
    \/ Setup("main") \/ Lifetime("main") \/ Teardown("main")
    \/ Capture

Spec == Init /\ [][Next]_vars

\* The threads are scheduled fairly: a capture thread that can take a step
\* eventually takes one, and so does a caller that is inside a call.  A
\* caller that is idle need not call anything.
InCall(c) ==
    \/ StartCaptureFd(c) \/ StartCaptureRunning(c) \/ StartCaptureSet(c)
    \/ StartCaptureSpawn(c)
    \/ StopCaptureCheck(c) \/ StopCaptureSet(c) \/ StopCaptureJoin(c)
    \/ StopCaptureReset(c)
    \/ WritePacketCheck(c) \/ WritePacketWrite(c) \/ WritePacketCountPackets(c)
    \/ WritePacketCountBytes(c)
    \/ InitializeOpen(c) \/ InitializeIoctl(c) \/ InitializeFcntl(c)
    \/ MoveCtorInit(c) \/ MoveCtorPackets(c) \/ MoveCtorBytes(c) \/ MoveCtorReset(c)
    \/ MoveAssignSelf(c) \/ MoveAssignClose(c) \/ MoveAssignMove(c)
    \/ MoveAssignPackets(c) \/ MoveAssignBytes(c) \/ MoveAssignReset(c)
    \/ DtorClose(c) \/ Return(c)

CaptureStep(t) ==
    \/ CaptureWhile(t) \/ CaptureRead(t) \/ CaptureCountPackets(t)
    \/ CaptureCountBytes(t) \/ CaptureHandler(t) \/ CaptureSleep(t)
    \/ CaptureForward(t)
    \/ WritePacketCheck(Frame(t)) \/ WritePacketWrite(Frame(t))
    \/ WritePacketCountPackets(Frame(t)) \/ WritePacketCountBytes(Frame(t))
    \/ ForwardReturn(t)
    \/ CaptureStopSelf(t)
    \/ StopCaptureCheck(Frame(t)) \/ StopCaptureSet(Frame(t))
    \/ StopCaptureJoinSelf(t)

FairSpec ==
    /\ Spec
    /\ \A t \in Threads : WF_vars(CaptureStep(t))
    /\ \A c \in Callers : WF_vars(InCall(c))

(* ------------------------------------------------------------ the claims *)

\* The capture threads that run on object o and have not left their loop.
LiveOn(o) == {t \in Threads : tthis[t] = o /\ tpc[t] \notin {"none", "done"}}

\* The thread capture_thread_ of o owns is still inside its loop.
TaskLive(o) ==
    /\ capture_thread_[o] # NULL
    /\ tpc[capture_thread_[o]] \notin {"none", "done"}

\* Caller c takes a step of the call it is in.
StepOf(c) == cpc'[c] # cpc[c]

\* Everything but the callers' own positions and the link budget.
progVars == <<objVars, hstate, thrVars, aborted, moved, stopped, badclose>>

\* C1: a startCapture whose preconditions are unmet (fd_ < 0, or running_
\* already true) returns false, spawns no thread and changes no member, no
\* handle, no thread and no counter; and where a single owner calls it on a
\* running interface that was never moved and that no stopCapture has
\* stopped in between (running_ is still true), the one task of the
\* interface is still the only one live when the call returns.
C1_StartCaptureRefuses ==
    /\ [][\A c \in Callers :
            /\ (cpc[c] = "idle" /\ cpc'[c] = "sc_fd") => UNCHANGED progVars
            /\ (StepOf(c) /\ cpc[c] = "sc_fd") =>
                   /\ UNCHANGED progVars
                   /\ fd_[cobj[c]] < 0 => (cpc'[c] = "ret" /\ cret'[c] = "false")
            /\ (StepOf(c) /\ cpc[c] = "sc_running") =>
                   /\ UNCHANGED progVars
                   /\ running_[cobj[c]] => (cpc'[c] = "ret" /\ cret'[c] = "false")
            /\ (StepOf(c) /\ cop[c] = "startCapture" /\ cpc'[c] = "ret"
                   /\ cret'[c] = "false") =>
                   /\ UNCHANGED progVars
                   /\ fd_[cobj[c]] < 0 \/ running_[cobj[c]]
         ]_vars
    /\ [](\A c \in Callers :
            (/\ usage # "shared"
             /\ cop[c] = "startCapture" /\ cpc[c] = "ret" /\ cret[c] = "false"
             /\ fd_[cobj[c]] >= 0 /\ ~moved[cobj[c]] /\ running_[cobj[c]])
            => Cardinality(LiveOn(cobj[c])) = 1)

\* C1 witness: a second startCapture on a running interface has just failed,
\* and exactly one task is live.
C1_Witness ==
    \E c \in Callers :
        /\ cop[c] = "startCapture" /\ cpc[c] = "ret" /\ cret[c] = "false"
        /\ running_[cobj[c]] /\ fd_[cobj[c]] >= 0
        /\ Cardinality(LiveOn(cobj[c])) = 1
        /\ usage = "single" /\ aborted = "no"

\* C2: under every interleaving of the calls of several caller threads on one
\* interface, at most one capture task exists for the interface.
C2_AtMostOneTask ==
    usage = "shared" => \A o \in Objects : Cardinality(LiveOn(o)) <= 1

\* C3: whenever no call is mid-execution, the capture task an interface owns
\* is live if and only if the interface's running flag is true.
C3_TaskLiveIffRunning ==
    (usage # "shared" /\ aborted = "no" /\ \A c \in Callers : cpc[c] = "idle")
    => \A o \in Objects : ostate[o] = "alive" => (TaskLive(o) <=> running_[o])

\* C4: where one thread at a time calls the interface, once stopCapture has
\* returned on it, and until the next startCapture on it sets running_, no
\* capture thread reads the interface's handle, updates its RX counters or
\* calls the handler for it.
C4_QuietAfterStop ==
    [][usage # "shared" =>
          \A t \in Threads :
              (tpc'[t] # tpc[t] /\ tpc[t] \in {"read", "cnt_p", "cnt_b", "handler"})
              => ~stopped[tthis[t]]
      ]_vars

\* C5: under fair scheduling a caller that waits in stopCapture's join (in a
\* stopCapture call, a destructor or a move assignment) eventually gets past
\* it, whatever the device reads return.
C5_StopCaptureReturns ==
    \A c \in Callers :
        (cpc[c] = "st_join") ~> (cpc[c] # "st_join" \/ aborted # "no")

\* C6: stopCapture on an interface that is not running changes nothing, and a
\* stopCapture that has returned leaves the interface not running (so that
\* one more stopCapture is again a no-op).
C6_StopCaptureIdempotent ==
    /\ [][\A c \in Callers :
            /\ (cpc[c] = "idle" /\ cpc'[c] = "st_chk") => UNCHANGED progVars
            /\ (StepOf(c) /\ cop[c] = "stopCapture" /\ cpc[c] = "st_chk"
                   /\ ~running_[cobj[c]]) =>
                   /\ cpc'[c] = "ret" /\ cret'[c] = "void"
                   /\ UNCHANGED progVars
         ]_vars
    /\ [](\A c \in Callers :
            (usage # "shared" /\ cop[c] = "stopCapture" /\ cpc[c] = "ret")
            => ~running_[cobj[c]] /\ capture_thread_[cobj[c]] = NULL)

\* C6 witness: a stopCapture on an interface that an earlier stopCapture had
\* stopped has run through.
C6_Witness ==
    \E c \in Callers :
        /\ cop[c] = "stopCapture" /\ cpc[c] = "ret"
        /\ stopped[cobj[c]] /\ ~running_[cobj[c]] /\ fd_[cobj[c]] >= 0
        /\ \E t \in Threads : tthis[t] = cobj[c] /\ tjoined[t]
        /\ packets_received_[cobj[c]] > 0
        /\ usage = "single" /\ aborted = "no"

\* C7: writePacket on an interface that is not running or holds no handle
\* returns false at once: no device write, no counter and nothing else changes.
C7_WriteRefusedWhenNotRunning ==
    [][\A c \in Callers :
          /\ (cpc[c] = "idle" /\ cpc'[c] = "wp_chk") => UNCHANGED progVars
          /\ (StepOf(c) /\ cpc[c] = "wp_chk"
                 /\ (fd_[cobj[c]] < 0 \/ ~running_[cobj[c]])) =>
                 /\ cpc'[c] = "ret" /\ cret'[c] = "false"
                 /\ UNCHANGED <<progVars, wrleft>>
      ]_vars

\* C7 witness: writePacket has just been refused on an interface that sent a
\* packet while it ran and was stopped since.
C7_Witness ==
    \E c \in Callers :
        /\ cop[c] = "writePacket" /\ cpc[c] = "ret" /\ cret[c] = "false"
        /\ stopped[cobj[c]] /\ ~running_[cobj[c]] /\ fd_[cobj[c]] >= 0
        /\ packets_sent_[cobj[c]] = 1
        /\ aborted = "no"

\* C8 as claimed: a writePacket that returns true has added exactly 1 to
\* packets_sent_ and exactly the packet length to bytes_sent_, and has left
\* the RX counters alone.
C8_SentBytesIsPacketLength ==
    [][\A c \in Callers :
          (StepOf(c) /\ cop[c] = "writePacket") =>
              /\ UNCHANGED rxVars
              /\ (cpc'[c] = "ret" /\ cret'[c] = "true") => cpc[c] = "wp_cnt_b"
              /\ cpc[c] = "wp_cnt_p" =>
                     packets_sent_' = [packets_sent_ EXCEPT ![cobj[c]] = @ + 1]
              /\ cpc[c] = "wp_cnt_b" =>
                     bytes_sent_' = [bytes_sent_ EXCEPT ![cobj[c]] = @ + Len(cpkt[c])]
              /\ cpc[c] # "wp_cnt_p" => UNCHANGED packets_sent_
              /\ cpc[c] # "wp_cnt_b" => UNCHANGED bytes_sent_
      ]_vars

\* C8 amended: a writePacket that returns true has added exactly 1 to
\* packets_sent_ and to bytes_sent_ exactly the number of bytes W the device
\* write reported, W <= packet length (the packet length when the write was
\* not short), and has left the RX counters alone.
C8_SentBytesIsWritten ==
    [][\A c \in Callers :
          (StepOf(c) /\ cop[c] = "writePacket") =>
              /\ UNCHANGED rxVars
              /\ (cpc'[c] = "ret" /\ cret'[c] = "true") => cpc[c] = "wp_cnt_b"
              /\ cpc[c] = "wp_cnt_p" =>
                     packets_sent_' = [packets_sent_ EXCEPT ![cobj[c]] = @ + 1]
              /\ cpc[c] = "wp_cnt_b" =>
                     /\ bytes_sent_' = [bytes_sent_ EXCEPT ![cobj[c]] = @ + cwritten[c]]
                     /\ cwritten[c] <= Len(cpkt[c])
              /\ cpc[c] # "wp_cnt_p" => UNCHANGED packets_sent_
              /\ cpc[c] # "wp_cnt_b" => UNCHANGED bytes_sent_
      ]_vars

\* C8 witness: writePacket has returned true for a 2-byte packet of which the
\* device took 1 byte.
C8_Witness ==
    \E c \in Callers :
        /\ cop[c] = "writePacket" /\ cpc[c] = "ret" /\ cret[c] = "true"
        /\ Len(cpkt[c]) = 2 /\ cwritten[c] = 1
        /\ packets_sent_[cobj[c]] = 1 /\ bytes_sent_[cobj[c]] = 1

\* C9: a read of N > 0 bytes is followed by packets_received_ + 1, then
\* bytes_received_ + N, then one handler call on the capture thread with
\* exactly the N bytes read, before the thread reads again; a read of 0
\* bytes or a failed read changes no counter and leads to no handler call.
C9_ReadCountedAndDelivered ==
    [][\A t \in Threads :
          /\ (tpc'[t] # tpc[t] /\ tpc[t] = "read") =>
                 /\ UNCHANGED <<rxVars, txVars>>
                 /\ hlog'[t] = hlog[t]
                 /\ IF rlog'[t] # <<>>
                    THEN tpc'[t] = "cnt_p" /\ Len(rlog'[t]) <= buffer_size
                    ELSE tpc'[t] \in {"while", "sleep1", "sleep10"}
          /\ (tpc'[t] # tpc[t] /\ tpc[t] = "cnt_p") =>
                 /\ packets_received_' =
                        [packets_received_ EXCEPT ![tthis[t]] = @ + 1]
                 /\ UNCHANGED <<bytes_received_, txVars, rlog, hlog>>
                 /\ tpc'[t] = "cnt_b"
          /\ (tpc'[t] # tpc[t] /\ tpc[t] = "cnt_b") =>
                 /\ bytes_received_' =
                        [bytes_received_ EXCEPT ![tthis[t]] = @ + Len(rlog[t])]
                 /\ UNCHANGED <<packets_received_, txVars, rlog, hlog>>
                 /\ tpc'[t] = "handler"
          /\ (hlog'[t] # hlog[t] /\ hlog'[t] # <<>>) =>
                 /\ tpc[t] = "handler"
                 /\ hlog'[t] = rlog[t]
                 /\ UNCHANGED <<rxVars, txVars>>
          /\ (tpc'[t] # tpc[t] /\ tpc[t] \in {"while", "sleep1", "sleep10", "handler"}) =>
                 UNCHANGED <<rxVars, txVars>>
      ]_vars

\* C9 witness: a 1-byte packet read after a 2-byte packet has been counted
\* and handed to the handler as exactly its one byte.
C9_Witness ==
    \E t \in Threads :
        /\ hlog[t] = Packet(1) /\ tbuf[t] = <<Packet(1)[1], Packet(2)[2]>>
        /\ packets_received_[tthis[t]] = 2
        /\ bytes_received_[tthis[t]] = 3

\* C10: no failure raised by the packet handler leaves the capture thread.
C10_HandlerFaultsAbsorbed == aborted # "uncaught_exception"

\* C11: over the lifetime of an interface object none of its four counters
\* ever decreases or is reset, whatever is called on it, a move assignment
\* into it included.
C11_CountersNeverDecrease ==
    [][\A o \in Objects :
          (ostate[o] = "alive" /\ ostate'[o] = "alive") =>
              /\ packets_received_'[o] >= packets_received_[o]
              /\ packets_sent_'[o] >= packets_sent_[o]
              /\ bytes_received_'[o] >= bytes_received_[o]
              /\ bytes_sent_'[o] >= bytes_sent_[o]
      ]_vars

\* C12: a move (construction or assignment) gives the destination the
\* source's name, handle and running state, and when it completes the
\* destination's four counters are exactly the source's; the moved-from
\* object is then not running and holds neither a handle nor a thread.
C12_MoveTransfersExactly ==
    [][\A c \in Callers :
          /\ (StepOf(c) /\ cpc[c] \in {"mc_init", "ma_move"}) =>
                 /\ name_'[cobj[c]] = name_[csrc[c]]
                 /\ fd_'[cobj[c]] = fd_[csrc[c]]
                 /\ running_'[cobj[c]] = running_[csrc[c]]
          /\ (StepOf(c) /\ cpc[c] \in {"mc_reset", "ma_reset"}) =>
                 /\ packets_received_'[cobj[c]] = packets_received_'[csrc[c]]
                 /\ packets_sent_'[cobj[c]] = packets_sent_'[csrc[c]]
                 /\ bytes_received_'[cobj[c]] = bytes_received_'[csrc[c]]
                 /\ bytes_sent_'[cobj[c]] = bytes_sent_'[csrc[c]]
                 /\ fd_'[cobj[c]] = fd_[csrc[c]]
                 /\ running_'[cobj[c]] = running_[csrc[c]]
                 /\ fd_'[csrc[c]] = InvalidFd
                 /\ ~running_'[csrc[c]]
                 /\ capture_thread_'[csrc[c]] = NULL
      ]_vars

\* C13: a capture thread works on the interface that owns it: while no call
\* is in progress (so after a move has returned), every loop
\* test, device read and RX count of a thread whose std::thread object is
\* held by interface o (after a move: the destination) uses o's running
\* flag, o's handle and o's counters, and none of the moved-from source.
C13_TaskFollowsMove ==
    [][\A t \in Threads, o \in Objects :
          (/\ usage # "shared"
           /\ \A c \in Callers : cpc[c] = "idle"
           /\ capture_thread_[o] = t
           /\ tpc'[t] # tpc[t]
           /\ tpc[t] \in {"while", "read", "cnt_p", "cnt_b"})
          => tthis[t] = o
      ]_vars

\* The interface objects that hold handle h.
Holders(h) == {o \in Objects : ostate[o] = "alive" /\ fd_[o] = h}

\* C14: whenever no call is in progress, every open device handle is held
\* by exactly one interface object (never by two, and never by none: no
\* leak, also once every object is destroyed), and close was never called
\* on a handle that was not open (no double release).
C14_HandleOwnership ==
    (usage # "shared" /\ \A c \in Callers : cpc[c] = "idle") =>
        /\ \A h \in Handles : hstate[h] = "open" => Cardinality(Holders(h)) = 1
        /\ ~badclose

\* C15: a destructor reaches the closing of the handle only after every
\* capture thread that runs on the interface has left its loop, and no
\* capture thread of a destroyed interface is live.
C15_JoinBeforeClose ==
    \A o \in Objects :
        (\/ ostate[o] = "dead"
         \/ \E c \in Callers : cpc[c] = "dt_close" /\ cobj[c] = o)
        => LiveOn(o) = {}

\* C16: initialize on an interface that already holds a valid handle returns
\* false and changes nothing: the handle, the name, the running flag, the
\* counters and the open handles stay as they are.
C16_SecondInitializeFails ==
    [][\A c \in Callers :
          (StepOf(c) /\ cpc[c] = "in_open" /\ fd_[cobj[c]] >= 0) =>
              /\ cpc'[c] = "ret" /\ cret'[c] = "false"
              /\ UNCHANGED progVars
      ]_vars

\* C17: in the programs that call initialize once on each interface, right
\* after construction, an initialize that returns false leaves the interface
\* as it was constructed: it holds no handle, the handle the attempt opened
\* is closed (every open handle has a holder), its name is the name it was
\* constructed with, it is not running and its counters are zero.
C17_FailedInitializeRestores ==
    \A c \in Callers :
        (Scripted /\ cop[c] = "initialize" /\ cpc[c] = "ret" /\ cret[c] = "false")
        => /\ fd_[cobj[c]] = InvalidFd
           /\ \A h \in Handles : hstate[h] = "open" => Holders(h) # {}
           /\ name_[cobj[c]] = "req"
           /\ ~running_[cobj[c]]
           /\ packets_received_[cobj[c]] = 0 /\ bytes_received_[cobj[c]] = 0
           /\ packets_sent_[cobj[c]] = 0 /\ bytes_sent_[cobj[c]] = 0

\* C18: a read attempt of the capture loop that delivers no packet (it would
\* block, or it failed) is followed by a sleep step before the loop tests
\* running_ and reads again.
C18_SleepBeforeRetry ==
    [][\A t \in Threads :
          (tpc[t] = "read" /\ tpc'[t] # tpc[t]) =>
              tpc'[t] \in {"cnt_p", "sleep1", "sleep10"}
      ]_vars

\* C19: the device write of writePacket is attempted once.  When it fails
\* (would-block or any other error) writePacket returns false straight away
\* and changes no counter, no running flag and nothing else; it goes on to
\* count only when the device took the bytes; and no writePacket that
\* returns false has changed anything.
C19_WriteFailureReturnsFalse ==
    [][\A c \in Frames :
          /\ (StepOf(c) /\ cpc[c] = "wp_write") =>
                 \/ /\ cpc'[c] = "ret" /\ cret'[c] = "false"
                    /\ UNCHANGED <<progVars, wrleft>>
                 \/ /\ cpc'[c] = "wp_cnt_p" /\ cwritten'[c] >= 0
                    /\ UNCHANGED progVars
          /\ (StepOf(c) /\ cop[c] = "writePacket" /\ cpc'[c] = "ret"
                 /\ cret'[c] = "false") =>
                 /\ cpc[c] \in {"wp_chk", "wp_write"}
                 /\ UNCHANGED progVars
      ]_vars

\* C19 witness: on a running interface that holds a handle, the owner's
\* writePacket has returned false after its device write failed.
C19_Witness ==
    /\ usage = "single" /\ aborted = "no"
    /\ cop["main"] = "writePacket" /\ cpc["main"] = "ret" /\ cret["main"] = "false"
    /\ running_[cobj["main"]] /\ fd_[cobj["main"]] >= 0
    /\ hstate[fd_[cobj["main"]]] = "open"
    /\ packets_sent_[cobj["main"]] = 0 /\ wrleft = MaxWrites

\* C20: in the forwarding program every packet a capture thread reads is
\* handed, with exactly the bytes read, to writePacket of the other
\* interface, and that writePacket goes on to the device write: no captured
\* packet is refused before it reaches the other interface's handle.
C20_CapturedPacketForwarded ==
    [][\A t \in Threads :
          /\ (tpc[t] = "handler" /\ tpc'[t] = "in_handler") =>
                 /\ cpkt'[Frame(t)] = rlog[t]
                 /\ cobj'[Frame(t)] = Peer(tthis[t])
          /\ (cpc[Frame(t)] = "wp_chk" /\ cpc'[Frame(t)] # "wp_chk") =>
                 cpc'[Frame(t)] = "wp_write"
      ]_vars


\* The interface took part in no move, as source or as destination.
NeverMoved(o) == ~moved[o]

\* A stopCapture on o has returned and no startCapture has set running_ since.
StopReturned(o) ==
    \/ stopped[o]
    \/ \E c \in Callers :
        cop[c] = "stopCapture" /\ cobj[c] = o /\ cpc[c] = "ret" /\ ~running_[o]

\* C21: for an interface that is never moved, the handler invocations H its
\* capture task has begun satisfy H <= packets_received_ <= H + 1, and
\* bytes_received_ lies between the bytes of the buffers already passed to
\* the handler and that sum plus 2048; once stopCapture has returned,
\* packets_received_ is exactly H and bytes_received_ exactly that sum.
C21_ReceiveCountersTrackHandler ==
    \A o \in Objects :
        (ostate[o] = "alive" /\ NeverMoved(o)) =>
            /\ handled[o] <= packets_received_[o]
            /\ packets_received_[o] <= handled[o] + 1
            /\ delivered[o] <= bytes_received_[o]
            /\ bytes_received_[o] <= delivered[o] + buffer_size
            /\ StopReturned(o) =>
                    /\ packets_received_[o] = handled[o]
                    /\ bytes_received_[o] = delivered[o]


\* The std::thread that capture_thread_ of o owns is destroyed by this step:
\* no interface owns it afterwards.
Discards(o) ==
    /\ capture_thread_[o] # NULL
    /\ \A q \in Objects : capture_thread_'[q] # capture_thread_[o]

\* C22: a capture thread object is never discarded while still unjoined: in
\* every sequence of startCapture, stopCapture (from any thread, the capture
\* task's own handler included), restart, move and destruction, the thread
\* capture_thread_ owns has been joined before a startCapture replaces it or
\* the destructor destroys it, and the process is never terminated for
\* discarding a joinable thread.
C22_JoinedBeforeDiscard ==
    [][/\ \A o \in Objects : Discards(o) => tjoined[capture_thread_[o]]
       /\ aborted' # "terminate"
      ]_vars

====
